---- MODULE Spec2Model ----
(***************************************************************************)
(* Model of the playlist and video controllers of express-starter          *)
(* (src/controllers/playlist.controller.js, video.controller.js).          *)
(*                                                                         *)
(* The document store is the state: one collection of playlists and one    *)
(* of videos.  Every controller is an action; resp holds the request that  *)
(* was handled last together with the response sent for it.                *)
(*                                                                         *)
(* Text is a sequence of one-character strings, so that trim() and the     *)
(* case-insensitive $regex match are computed and not assumed.             *)
(* An identifier arriving in a route parameter is a string; an ObjectId    *)
(* kept in the store is its canonical value.  A raw identifier is the pair *)
(* of the ObjectId it casts to and whether it is spelled with upper-case   *)
(* hex digits; oid 0 is a string that is no ObjectId at all.               *)
(***************************************************************************)
EXTENDS Integers, Sequences, FiniteSets, TLC

VARIABLES
    playlists,      \* the Playlist collection: identifier -> document
    plNext,         \* the identifier the next created playlist gets
    videos,         \* the Video collection: identifier -> document
    vidNext,        \* the identifier the next created video gets
    likes,          \* the Like collection (rows with a video reference)
    subscriptions,  \* the Subscription collection
    pending,        \* requests that are between two awaits: client -> handler state
    resp,           \* the request answered last, with its response
    prev            \* the publish-flag toggle answered before it, if it was one

playlistVars == <<playlists, plNext>>

videoVars == <<videos, vidNext>>

socialVars == <<likes, subscriptions>>

vars ==
    <<playlists, plNext, videos, vidNext, likes, subscriptions, pending, resp, prev>>

----------------------------------------------------------------------------
(* Bounds and input domains *)

\* Longest video list of a playlist
MaxListLen == 2

Users == {"u1", "u2"}

\* Identifiers the playlist collection hands out, in this order, never reused
PlaylistIds == {1, 2}

\* ObjectIds that video route parameters can denote
VideoOids == {1, 2}

\* req.body field that is not there
Undefined == <<"undefined">>

\* A missing document (findById / findOne returning null)
Null == [null |-> TRUE]

\* Identifiers the video collection hands out, in this order, never reused
VideoIds == {1, 2}

\* Connections that can have a request in progress at the same time
Clients == {"c1", "c2"}

\* A client with no request in progress
NoPending == [pc |-> "idle"]

\* Route parameters: playlistId (0: malformed), videoId as typed by the client
PlaylistParams == {0} \cup PlaylistIds

RawVideoIds ==
    {[oid |-> 0, upper |-> FALSE]} \cup [oid : VideoOids, upper : BOOLEAN]

\* req.body of createPlaylist and updatePlaylist
PlaylistBodies ==
    { [name |-> <<"a">>,        description |-> <<"d">>],
      [name |-> <<"b">>,        description |-> <<"d">>],
      [name |-> <<"a">>,        description |-> <<"e">>],
      [name |-> <<"a">>,        description |-> Undefined],
      [name |-> Undefined,      description |-> <<"e">>],
      [name |-> Undefined,      description |-> Undefined],
      [name |-> <<>>,           description |-> <<"d">>],
      [name |-> <<"b">>,        description |-> <<>>],
      [name |-> <<" ">>,        description |-> <<"d">>],
      [name |-> <<"b">>,        description |-> <<" ">>],
      [name |-> Undefined,      description |-> <<" ">>] }

\* Largest view counter followed
MaxViews == 2

\* Largest page and limit query parameters tried
MaxPage == 3

MaxLimit == 3

\* const { page = 1, limit = 10 } = req.query
DefaultPage == 1

DefaultLimit == 10

\* Video route parameter (0: malformed)
VideoParams == {0} \cup VideoIds

\* req.body of publishAVideo and updateVideo
VideoBodies ==
    { [title |-> <<"a">>,   description |-> <<"b">>],
      [title |-> <<"B">>,   description |-> <<"c">>],
      [title |-> <<" ">>,   description |-> <<"b">>],
      [title |-> <<"a">>,   description |-> Undefined],
      [title |-> Undefined, description |-> <<"c">>],
      [title |-> <<>>,      description |-> <<"c">>],
      [title |-> Undefined, description |-> Undefined],
      [title |-> <<>>,      description |-> <<>>] }

\* An upload field that carries no file
NoFile == "none"

\* What the media service does with one upload: a result, no result, an error
UploadOutcomes == {"ok", "null", "throw"}

\* multipart requests of publishAVideo; the outcome of an upload is drawn
\* only where the handler can reach the upload
PublishRequests ==
    [body : VideoBodies, videoFile : {NoFile, "f1"}, thumbnail : {NoFile, "t1"},
     videoUpload : {"ok"}, thumbnailUpload : {"ok"}]
    \cup
    [body : VideoBodies, videoFile : {"f1"}, thumbnail : {"t1"},
     videoUpload : UploadOutcomes, thumbnailUpload : UploadOutcomes]

\* requests of updateVideo (req.file is the new thumbnail)
UpdateRequests ==
    [vid : VideoParams, body : VideoBodies, file : {NoFile},
     thumbnailUpload : {"ok"}]
    \cup
    [vid : VideoParams, body : VideoBodies, file : {"t2"},
     thumbnailUpload : UploadOutcomes]

\* A numeric query parameter: absent, or the integer it parses to
IntParams(max) ==
    {[given |-> FALSE, val |-> 0]} \cup [given : {TRUE}, val : 0..max]

\* req.query of getAllVideos; "" is a parameter that is not there
FeedQueries ==
    [query : {<<>>, <<"b">>}, userId : {"", "bad", "u1"},
     sortBy : {"", "views"}, sortType : {"", "asc", "desc"},
     page : IntParams(MaxPage), limit : IntParams(MaxLimit)]

\* req.query of getChannelVideos
ChannelQueries ==
    [sortBy : {"", "views"}, sortType : {"", "asc"},
     page : IntParams(MaxPage), limit : IntParams(MaxLimit)]

----------------------------------------------------------------------------
(* JavaScript and Mongoose helpers *)

RECURSIVE trimStart(_)
trimStart(s) ==
    IF s # <<>> /\ Head(s) = " " THEN trimStart(Tail(s)) ELSE s

RECURSIVE trimEnd(_)
trimEnd(s) ==
    IF s # <<>> /\ s[Len(s)] = " " THEN trimEnd(SubSeq(s, 1, Len(s) - 1)) ELSE s

\* String.prototype.trim
trim(s) == trimEnd(trimStart(s))

\* field?.trim() === ""   (undefined?.trim() is undefined, which is not "")
optTrimIsEmpty(field) == field # Undefined /\ trim(field) = <<>>

\* !x for a string or undefined
falsy(x) == x = Undefined \/ x = <<>>

isValidObjectId(raw) == raw.oid # 0

isValidPlaylistParam(p) == p # 0

\* Cast of a route parameter to the ObjectId it denotes (hex digits of either case)
castObjectId(raw) == raw.oid

\* ObjectId.prototype.toString: the lower-case hex string
oidToString(oid) == [oid |-> oid, upper |-> FALSE]

\* MongooseArray.prototype.includes(string): loose equality of the string with
\* each stored ObjectId, that is, with the ObjectId's toString()
includes(list, raw) == \E i \in 1..Len(list) : raw = oidToString(list[i])

\* Model.findById: the document of that identifier, or null
findById(coll, id) == IF id \in DOMAIN coll THEN coll[id] ELSE Null

\* As existingPlaylist, the owner left out of the filter
existingPlaylistAnyOwner(name, owner) ==
    \E p \in DOMAIN playlists : playlists[p].name = name

\* As existingPlaylist, the lookup never finding a document
existingPlaylistNever(name, owner) == FALSE

\* Playlist.findOne({ name, owner }) finds a document
existingPlaylist(name, owner) ==
    \E p \in DOMAIN playlists :
        playlists[p].name = name /\ playlists[p].owner = owner

\* As ownerMismatch, the two identifiers never found different
ownerMismatchNever(doc, caller) == FALSE

\* playlist.owner.toString() !== req.user._id.toString()
ownerMismatch(doc, caller) == doc.owner # caller

\* Playlist schema: name and description are required strings
playlistSchemaValid(name, description) ==
    ~falsy(name) /\ ~falsy(description)

\* playlist.videos.filter((vid) => vid.toString() !== videoId.toString())
RECURSIVE filterOut(_, _)
filterOut(list, raw) ==
    IF list = <<>> THEN <<>>
    ELSE IF oidToString(Head(list)) # raw
         THEN <<Head(list)>> \o filterOut(Tail(list), raw)
         ELSE filterOut(Tail(list), raw)

----------------------------------------------------------------------------
(* Requests and responses *)

NoBody == [name |-> Undefined, description |-> Undefined]

NoVideoParam == [oid |-> 0, upper |-> FALSE]

\* The request handled last and the response sent for it; before is the
\* playlist collection as the request found it
PlaylistReply(op, caller, pid, vid, body, status, msg) ==
    [op |-> op, caller |-> caller, pid |-> pid, vid |-> vid, body |-> body,
     status |-> status, msg |-> msg, before |-> playlists]

\* An error thrown before any write: the store is as it was
PlaylistError(op, caller, pid, vid, body, status, msg) ==
    /\ resp' = PlaylistReply(op, caller, pid, vid, body, status, msg)
    /\ UNCHANGED <<playlists, plNext, videoVars, socialVars, pending, prev>>

\* playlist.save() / findByIdAndDelete succeeded
PlaylistDone(op, caller, pid, vid, body, status, msg, store) ==
    /\ resp' = PlaylistReply(op, caller, pid, vid, body, status, msg)
    /\ playlists' = store
    /\ UNCHANGED <<plNext, videoVars, socialVars, pending, prev>>

----------------------------------------------------------------------------
(* playlist.controller.js *)

createPlaylist(caller, body) ==
    IF optTrimIsEmpty(body.name) \/ optTrimIsEmpty(body.description)
    THEN PlaylistError("createPlaylist", caller, 0, NoVideoParam, body,
                       400, "All fields are required")
    ELSE IF existingPlaylist(body.name, caller)
    THEN PlaylistError("createPlaylist", caller, 0, NoVideoParam, body,
                       400, "Playlist with the same name already exists")
    ELSE IF ~playlistSchemaValid(body.name, body.description)
    THEN PlaylistError("createPlaylist", caller, 0, NoVideoParam, body,
                       500, "Playlist validation failed")
    ELSE /\ plNext \in PlaylistIds
         /\ playlists' = [p \in DOMAIN playlists \cup {plNext} |->
                            IF p = plNext
                            THEN [name |-> body.name,
                                  description |-> body.description,
                                  owner |-> caller, videos |-> <<>>]
                            ELSE playlists[p]]
         /\ plNext' = plNext + 1
         /\ resp' = PlaylistReply("createPlaylist", caller, plNext, NoVideoParam,
                                  body, 201, "Playlist created successfully")
         /\ UNCHANGED <<videoVars, socialVars, pending, prev>>

addVideoToPlaylist(caller, pid, vid) ==
    LET playlist == findById(playlists, pid) IN
    IF ~isValidPlaylistParam(pid) \/ ~isValidObjectId(vid)
    THEN PlaylistError("addVideoToPlaylist", caller, pid, vid, NoBody,
                       400, "Invalid playlist ID or video ID")
    ELSE IF playlist = Null
    THEN PlaylistError("addVideoToPlaylist", caller, pid, vid, NoBody,
                       404, "Playlist not found")
    ELSE IF includes(playlist.videos, vid)
    THEN PlaylistError("addVideoToPlaylist", caller, pid, vid, NoBody,
                       400, "Video already in playlist")
    ELSE /\ Len(playlist.videos) < MaxListLen
         /\ PlaylistDone("addVideoToPlaylist", caller, pid, vid, NoBody,
                200, "Video added to playlist successfully",
                [playlists EXCEPT ![pid].videos =
                    Append(@, castObjectId(vid))])

removeVideoFromPlaylist(caller, pid, vid) ==
    LET playlist == findById(playlists, pid) IN
    IF ~isValidPlaylistParam(pid) \/ ~isValidObjectId(vid)
    THEN PlaylistError("removeVideoFromPlaylist", caller, pid, vid, NoBody,
                       400, "Invalid playlist ID or video ID")
    ELSE IF playlist = Null
    THEN PlaylistError("removeVideoFromPlaylist", caller, pid, vid, NoBody,
                       404, "Playlist not found")
    ELSE IF ~includes(playlist.videos, vid)
    THEN PlaylistError("removeVideoFromPlaylist", caller, pid, vid, NoBody,
                       400, "Video not found in playlist")
    ELSE PlaylistDone("removeVideoFromPlaylist", caller, pid, vid, NoBody,
                200, "Video removed from playlist successfully",
                [playlists EXCEPT ![pid].videos = filterOut(@, vid)])

deletePlaylist(caller, pid) ==
    LET playlist == findById(playlists, pid) IN
    IF ~isValidPlaylistParam(pid)
    THEN PlaylistError("deletePlaylist", caller, pid, NoVideoParam, NoBody,
                       400, "Invalid playlist ID")
    ELSE IF playlist = Null
    THEN PlaylistError("deletePlaylist", caller, pid, NoVideoParam, NoBody,
                       404, "Playlist not found")
    ELSE IF ownerMismatch(playlist, caller)
    THEN PlaylistError("deletePlaylist", caller, pid, NoVideoParam, NoBody,
                       403, "You are not authorized to delete this playlist")
    ELSE PlaylistDone("deletePlaylist", caller, pid, NoVideoParam, NoBody,
                200, "Playlist deleted successfully",
                [p \in DOMAIN playlists \ {pid} |-> playlists[p]])

updatePlaylist(caller, pid, body) ==
    LET playlist == findById(playlists, pid)
        name == body.name
        description == body.description
    IN
    IF ~isValidPlaylistParam(pid)
    THEN PlaylistError("updatePlaylist", caller, pid, NoVideoParam, body,
                       400, "Invalid playlist ID")
    ELSE IF falsy(name) /\ falsy(description)
    THEN PlaylistError("updatePlaylist", caller, pid, NoVideoParam, body,
                       400, "At least one field (name or description) is required")
    ELSE IF name # Undefined /\ trim(name) = <<>>
    THEN PlaylistError("updatePlaylist", caller, pid, NoVideoParam, body,
                       400, "Name cannot be empty")
    ELSE IF description # Undefined /\ trim(description) = <<>>
    THEN PlaylistError("updatePlaylist", caller, pid, NoVideoParam, body,
                       400, "Description cannot be empty")
    ELSE IF playlist = Null
    THEN PlaylistError("updatePlaylist", caller, pid, NoVideoParam, body,
                       404, "Playlist not found")
    ELSE IF ownerMismatch(playlist, caller)
    THEN PlaylistError("updatePlaylist", caller, pid, NoVideoParam, body,
                       403, "You are not authorized to update this playlist")
    ELSE PlaylistDone("updatePlaylist", caller, pid, NoVideoParam, body,
                200, "Playlist updated successfully!",
                [playlists EXCEPT
                    ![pid].name = IF ~falsy(name) THEN name ELSE @,
                    ![pid].description =
                        IF ~falsy(description) THEN description ELSE @])

----------------------------------------------------------------------------
(* Helpers of video.controller.js *)

Min(a, b) == IF a < b THEN a ELSE b

\* Lower-case form of a character ($options: "i")
lower(c) == CASE c = "A" -> "a" [] c = "B" -> "b" [] c = "C" -> "c" [] OTHER -> c

\* One pattern character against one character; "." matches any character
charMatches(pc, c) == pc = "." \/ lower(pc) = lower(c)

\* { $regex: query, $options: "i" }: the pattern occurs somewhere in the text
regexTest(text, pattern) ==
    \E i \in 1..(Len(text) - Len(pattern) + 1) :
        \A k \in 1..Len(pattern) : charMatches(pattern[k], text[i + k - 1])

isValidUserParam(u) == u \in Users

\* As matchConditions, without matchConditions.isPublished = true
matchConditionsAnyState(doc, q) ==
    /\ ~falsy(q.query) =>
          regexTest(doc.title, q.query) \/ regexTest(doc.description, q.query)
    /\ q.userId # "" => doc.owner = q.userId

\* matchConditions of getAllVideos, applied to one document
matchConditions(doc, q) ==
    /\ ~falsy(q.query) =>
          regexTest(doc.title, q.query) \/ regexTest(doc.description, q.query)
    /\ q.userId # "" => doc.owner = q.userId
    /\ doc.isPublished = TRUE

\* { $match: { owner: channelId } } of getChannelVideos
channelMatch(doc, channelId) == doc.owner = channelId

\* sortOptions of getAllVideos: field and direction
sortOptions(q) ==
    IF q.sortBy # "" /\ q.sortType # ""
    THEN [by |-> q.sortBy, dir |-> IF q.sortType = "desc" THEN -1 ELSE 1]
    ELSE [by |-> "createdAt", dir |-> -1]

\* sortOptions of getChannelVideos (sortBy = "createdAt", sortType = "desc" by default)
channelSortOptions(q) ==
    [by  |-> IF q.sortBy = "" THEN "createdAt" ELSE q.sortBy,
     dir |-> IF (IF q.sortType = "" THEN "desc" ELSE q.sortType) = "desc"
             THEN -1 ELSE 1]

\* The value $sort compares; identifiers grow with the time of creation
sortKey(store, v, by) ==
    CASE by = "createdAt" -> v
      [] by = "views"     -> store[v].views
      [] OTHER            -> 0

\* Every order { $sort } may produce: documents with equal keys in any order
sortedOrders(store, S, so) ==
    { ord \in [1..Cardinality(S) -> S] :
        /\ \A i, j \in 1..Cardinality(S) : ord[i] = ord[j] => i = j
        /\ \A i, j \in 1..Cardinality(S) :
              i < j => so.dir * sortKey(store, ord[i], so.by)
                          <= so.dir * sortKey(store, ord[j], so.by) }

\* parseInt of a query parameter that has a default
intParam(p, default) == IF p.given THEN p.val ELSE default

\* As skipOf, pages counted from 0
skipOfPage(page, limit) == page * limit

\* const skip = (parseInt(page) - 1) * parseInt(limit)
skipOf(page, limit) == (page - 1) * limit

\* { $skip: skip }, { $limit: limit }
skipLimit(ord, skip, limit) ==
    SubSeq(ord, skip + 1, Min(Len(ord), skip + limit))

\* Math.ceil(totalVideos / limit)
ceilDiv(total, limit) ==
    IF total % limit = 0 THEN total \div limit ELSE (total \div limit) + 1

pagination(page, limit, total) ==
    [currentPage |-> page, totalPages |-> ceilDiv(total, limit),
     totalVideos |-> total, limit |-> limit]

\* uploadOnCloudinary(path, folder): the upload result, or null
uploadResult(file, folder, outcome) ==
    IF outcome = "ok" THEN [secure_url |-> <<folder, file>>] ELSE Null

\* Video schema defaults of a created document
newVideo(owner, body, videoUrl, thumbnailUrl) ==
    [owner |-> owner, title |-> body.title, description |-> body.description,
     videoFile |-> videoUrl, thumbnail |-> thumbnailUrl,
     isPublished |-> TRUE, views |-> 0]

\* findByIdAndUpdate(videoId, { $inc: { views: 1 } }): nothing when the
\* document is gone
incViews(store, vid) ==
    IF vid \in DOMAIN store THEN [store EXCEPT ![vid].views = @ + 1] ELSE store

\* As setFields, every field of the body written whether it is there or not
setFieldsAll(store, vid, body, thumbnailUrl) ==
    IF vid \in DOMAIN store
    THEN [store EXCEPT
            ![vid].title = body.title,
            ![vid].description = body.description,
            ![vid].thumbnail = IF thumbnailUrl # Null THEN thumbnailUrl ELSE @]
    ELSE store

\* findByIdAndUpdate(videoId, { $set: updateFields })
setFields(store, vid, body, thumbnailUrl) ==
    IF vid \in DOMAIN store
    THEN [store EXCEPT
            ![vid].title = IF ~falsy(body.title) THEN body.title ELSE @,
            ![vid].description =
                IF ~falsy(body.description) THEN body.description ELSE @,
            ![vid].thumbnail = IF thumbnailUrl # Null THEN thumbnailUrl ELSE @]
    ELSE store

\* As savePublishFlag, the save writing the whole document as it was read
saveWholeDocument(store, vid, video) ==
    [store EXCEPT ![vid] = [video EXCEPT !.isPublished = ~video.isPublished]]

\* As savePublishFlag, the save not reaching the store
savePublishFlagLost(store, vid, video) == store

\* video.isPublished = !video.isPublished; video.save(): the save writes the
\* modified path only
savePublishFlag(store, vid, video) ==
    [store EXCEPT ![vid].isPublished = ~video.isPublished]

\* Like rows that refer to a video
likesCount(v) == Cardinality({l \in likes : l.video = v})

----------------------------------------------------------------------------
(* Requests and responses of the video controllers *)

VideoReply(op, caller, req, status, msg, data, uploads) ==
    [op |-> op, caller |-> caller, req |-> req, status |-> status,
     msg |-> msg, data |-> data, uploads |-> uploads, before |-> videos]

\* An error thrown before any write, or a read answered
VideoRead(op, caller, req, status, msg, data, uploads) ==
    /\ resp' = VideoReply(op, caller, req, status, msg, data, uploads)
    /\ UNCHANGED <<videoVars, playlistVars, socialVars, pending, prev>>

\* A write to the video collection, then the answer
VideoWrite(op, caller, req, status, msg, data, uploads, store) ==
    /\ resp' = VideoReply(op, caller, req, status, msg, data, uploads)
    /\ videos' = store
    /\ UNCHANGED <<vidNext, playlistVars, socialVars, pending, prev>>

----------------------------------------------------------------------------
(* video.controller.js *)

getAllVideos(q) ==
    LET page == intParam(q.page, DefaultPage)
        limit == intParam(q.limit, DefaultLimit)
        skip == skipOf(page, limit)
        S == {v \in DOMAIN videos : matchConditions(videos[v], q)}
        total == Cardinality(S)
    IN
    IF q.userId # "" /\ ~isValidUserParam(q.userId)
    THEN VideoRead("getAllVideos", "", q, 400, "Invalid user ID", Null, <<>>)
    ELSE IF skip < 0 \/ limit <= 0
    THEN \* $skip / $limit refuse these values: the aggregation throws
         VideoRead("getAllVideos", "", q, 500, "aggregation failed", Null, <<>>)
    ELSE \E ord \in sortedOrders(videos, S, sortOptions(q)) :
            VideoRead("getAllVideos", "", q, 200, "Videos fetched successfully!",
                [videos |-> [i \in DOMAIN skipLimit(ord, skip, limit) |->
                                [_id |-> skipLimit(ord, skip, limit)[i],
                                 doc |-> videos[skipLimit(ord, skip, limit)[i]]]],
                 pagination |-> pagination(page, limit, total)],
                <<>>)

publishAVideo(caller, r) ==
    LET videoUploadResult == uploadResult(r.videoFile, "videos", r.videoUpload)
        thumbnailUploadResult ==
            uploadResult(r.thumbnail, "thumbnails", r.thumbnailUpload)
    IN
    IF falsy(r.body.title) \/ falsy(r.body.description)
    THEN VideoRead("publishAVideo", caller, r, 400,
                   "Title and description are required", Null, <<>>)
    ELSE IF r.videoFile = NoFile
    THEN VideoRead("publishAVideo", caller, r, 400,
                   "Video file is required", Null, <<>>)
    ELSE IF r.thumbnail = NoFile
    THEN VideoRead("publishAVideo", caller, r, 400,
                   "Thumbnail image is required", Null, <<>>)
    ELSE IF r.videoUpload = "throw"
    THEN VideoRead("publishAVideo", caller, r, 500,
                   "upload error", Null, <<"videos">>)
    ELSE IF r.thumbnailUpload = "throw"
    THEN VideoRead("publishAVideo", caller, r, 500,
                   "upload error", Null, <<"videos", "thumbnails">>)
    ELSE IF videoUploadResult = Null \/ thumbnailUploadResult = Null
    THEN VideoRead("publishAVideo", caller, r, 500,
                   "Failed to upload video or thumbnail", Null,
                   <<"videos", "thumbnails">>)
    ELSE /\ vidNext \in VideoIds
         /\ videos' = [v \in DOMAIN videos \cup {vidNext} |->
                         IF v = vidNext
                         THEN newVideo(caller, r.body,
                                       videoUploadResult.secure_url,
                                       thumbnailUploadResult.secure_url)
                         ELSE videos[v]]
         /\ vidNext' = vidNext + 1
         /\ resp' = VideoReply("publishAVideo", caller, r, 201,
                               "Video published successfully!",
                               [_id |-> vidNext], <<"videos", "thumbnails">>)
         /\ UNCHANGED <<playlistVars, socialVars, pending, prev>>

getVideoById(vid) ==
    LET video == findById(videos, vid) IN
    IF vid = 0
    THEN VideoRead("getVideoById", "", [vid |-> vid], 400,
                   "Invalid video ID", Null, <<>>)
    ELSE IF video = Null
    THEN VideoRead("getVideoById", "", [vid |-> vid], 404,
                   "Video not found", Null, <<>>)
    ELSE /\ video.views < MaxViews
         /\ VideoWrite("getVideoById", "", [vid |-> vid], 200,
                       "Video fetched successfully!", video, <<>>,
                       incViews(videos, vid))

updateVideo(caller, r) ==
    LET video == findById(videos, r.vid)
        thumbnailUploadResult ==
            uploadResult(r.file, "thumbnails", r.thumbnailUpload)
    IN
    IF r.vid = 0
    THEN VideoRead("updateVideo", caller, r, 400, "Invalid video ID", Null, <<>>)
    ELSE IF falsy(r.body.title) /\ falsy(r.body.description) /\ r.file = NoFile
    THEN VideoRead("updateVideo", caller, r, 400,
                   "At least one field is required to update", Null, <<>>)
    ELSE IF video = Null
    THEN VideoRead("updateVideo", caller, r, 404, "Video not found", Null, <<>>)
    ELSE IF ownerMismatch(video, caller)
    THEN VideoRead("updateVideo", caller, r, 403,
                   "You are not authorized to update this video", Null, <<>>)
    ELSE IF r.file # NoFile /\ r.thumbnailUpload = "throw"
    THEN VideoRead("updateVideo", caller, r, 500, "upload error", Null,
                   <<"thumbnails">>)
    ELSE IF r.file # NoFile /\ thumbnailUploadResult = Null
    THEN VideoRead("updateVideo", caller, r, 500, "Failed to upload thumbnail",
                   Null, <<"thumbnails">>)
    ELSE VideoWrite("updateVideo", caller, r, 200, "Video updated successfully!",
                    [_id |-> r.vid],
                    IF r.file # NoFile THEN <<"thumbnails">> ELSE <<>>,
                    setFields(videos, r.vid, r.body,
                              IF r.file # NoFile
                              THEN thumbnailUploadResult.secure_url ELSE Null))

\* As deleteVideo, findByIdAndDelete issued before the ownership check
deleteVideoBeforeCheck(caller, vid) ==
    LET video == findById(videos, vid) IN
    IF vid = 0
    THEN VideoRead("deleteVideo", caller, [vid |-> vid], 400,
                   "Invalid video ID", Null, <<>>)
    ELSE IF video = Null
    THEN VideoRead("deleteVideo", caller, [vid |-> vid], 404,
                   "Video not found", Null, <<>>)
    ELSE IF ownerMismatch(video, caller)
    THEN VideoWrite("deleteVideo", caller, [vid |-> vid], 403,
                    "You are not authorized to delete this video", Null, <<>>,
                    [v \in DOMAIN videos \ {vid} |-> videos[v]])
    ELSE VideoWrite("deleteVideo", caller, [vid |-> vid], 200,
                    "Video deleted successfully!", Null, <<>>,
                    [v \in DOMAIN videos \ {vid} |-> videos[v]])

deleteVideo(caller, vid) ==
    LET video == findById(videos, vid) IN
    IF vid = 0
    THEN VideoRead("deleteVideo", caller, [vid |-> vid], 400,
                   "Invalid video ID", Null, <<>>)
    ELSE IF video = Null
    THEN VideoRead("deleteVideo", caller, [vid |-> vid], 404,
                   "Video not found", Null, <<>>)
    ELSE IF ownerMismatch(video, caller)
    THEN VideoRead("deleteVideo", caller, [vid |-> vid], 403,
                   "You are not authorized to delete this video", Null, <<>>)
    ELSE VideoWrite("deleteVideo", caller, [vid |-> vid], 200,
                    "Video deleted successfully!", Null, <<>>,
                    [v \in DOMAIN videos \ {vid} |-> videos[v]])

togglePublishStatus(caller, vid) ==
    LET video == findById(videos, vid) IN
    IF vid = 0
    THEN VideoRead("togglePublishStatus", caller, [vid |-> vid], 400,
                   "Invalid video ID", Null, <<>>)
    ELSE IF video = Null
    THEN VideoRead("togglePublishStatus", caller, [vid |-> vid], 404,
                   "Video not found", Null, <<>>)
    ELSE IF ownerMismatch(video, caller)
    THEN VideoRead("togglePublishStatus", caller, [vid |-> vid], 403,
                   "You are not authorized to change this video's publish status",
                   Null, <<>>)
    ELSE VideoWrite("togglePublishStatus", caller, [vid |-> vid], 200,
                    IF ~video.isPublished
                    THEN "Video published successfully!"
                    ELSE "Video unpublished successfully!",
                    [_id |-> vid, isPublished |-> ~video.isPublished], <<>>,
                    savePublishFlag(videos, vid, video))

\* dashboard controller
getChannelVideos(caller, q) ==
    LET page == intParam(q.page, DefaultPage)
        limit == intParam(q.limit, DefaultLimit)
        skip == skipOf(page, limit)
        S == {v \in DOMAIN videos : channelMatch(videos[v], caller)}
        total == Cardinality(S)
    IN
    IF skip < 0 \/ limit <= 0
    THEN VideoRead("getChannelVideos", caller, q, 500, "aggregation failed",
                   Null, <<>>)
    ELSE \E ord \in sortedOrders(videos, S, channelSortOptions(q)) :
            VideoRead("getChannelVideos", caller, q, 200,
                "Channel videos fetched successfully",
                [videos |-> [i \in DOMAIN skipLimit(ord, skip, limit) |->
                                [_id |-> skipLimit(ord, skip, limit)[i],
                                 doc |-> videos[skipLimit(ord, skip, limit)[i]],
                                 likesCount |->
                                    likesCount(skipLimit(ord, skip, limit)[i])]],
                 pagination |-> pagination(page, limit, total)],
                <<>>)

\* { $group: { _id: null, totalViews: { $sum: "$views" } } } over the videos S
RECURSIVE sumViews(_, _)
sumViews(store, S) ==
    IF S = {} THEN 0
    ELSE LET v == CHOOSE x \in S : TRUE
         IN store[v].views + sumViews(store, S \ {v})

\* Video.aggregate([{ $match: { owner } }, { $group }]): one group, or no
\* document at all when no video matches
videoStats(channelId) ==
    LET S == {v \in DOMAIN videos : channelMatch(videos[v], channelId)} IN
    IF S = {} THEN <<>>
    ELSE <<[totalVideos |-> Cardinality(S), totalViews |-> sumViews(videos, S)]>>

\* As likesStats, the joined video's owner not matched
likesStatsAnyOwner(channelId) ==
    LET joined == {l \in likes : l.video \in DOMAIN videos} IN
    IF joined = {} THEN <<>> ELSE <<[totalLikes |-> Cardinality(joined)]>>

\* Like.aggregate([{ $lookup videos }, { $unwind }, { $match owner }, { $group }]):
\* $unwind drops the rows whose video reference finds no video
likesStats(channelId) ==
    LET joined == {l \in likes : l.video \in DOMAIN videos}
        matched == {l \in joined : videos[l.video].owner = channelId}
    IN IF matched = {} THEN <<>> ELSE <<[totalLikes |-> Cardinality(matched)]>>

\* stats[0]?.field || 0
firstOrZero(stats, field) == IF stats = <<>> THEN 0 ELSE stats[1][field]

getChannelStats(caller) ==
    VideoRead("getChannelStats", caller, [channelId |-> caller], 200,
              "Channel stats fetched successfully",
              [totalSubscribers |->
                   Cardinality({sub \in subscriptions : sub.channel = caller}),
               totalVideos |-> firstOrZero(videoStats(caller), "totalVideos"),
               totalViews |-> firstOrZero(videoStats(caller), "totalViews"),
               totalLikes |-> firstOrZero(likesStats(caller), "totalLikes")],
              <<>>)

----------------------------------------------------------------------------
(* The like and subscription controllers, as far as they write the rows the  *)
(* dashboard reads: a like is the row of (liker, target), created by the     *)
(* toggle when absent and deleted when present; subscribe creates the row of *)
(* (subscriber, channel), unsubscribe deletes it.                            *)

\* A Like row: exactly one target; video 0 / comment 0 is a reference not set
likeRow(liker, video, comment) ==
    [likedBy |-> liker, video |-> video, comment |-> comment]

\* Comments that can be liked
CommentIds == {1}

\* A write to the Like or Subscription collection, then the answer
SocialWrite(op, caller, req, newLikes, newSubscriptions) ==
    /\ resp' = VideoReply(op, caller, req, 200, "", Null, <<>>)
    /\ likes' = newLikes
    /\ subscriptions' = newSubscriptions
    /\ UNCHANGED <<videoVars, playlistVars, pending, prev>>

toggleLike(caller, row) ==
    SocialWrite("toggleLike", caller, row,
                IF row \in likes THEN likes \ {row} ELSE likes \cup {row},
                subscriptions)

toggleVideoLike(caller, vid) ==
    /\ vid \in DOMAIN videos
    /\ toggleLike(caller, likeRow(caller, vid, 0))

toggleCommentLike(caller, cid) == toggleLike(caller, likeRow(caller, 0, cid))

subscribe(caller, channel) ==
    SocialWrite("subscribe", caller, [channelId |-> channel], likes,
                subscriptions \cup {[subscriber |-> caller, channel |-> channel]})

unsubscribe(caller, channel) ==
    SocialWrite("unsubscribe", caller, [channelId |-> channel], likes,
                subscriptions \ {[subscriber |-> caller, channel |-> channel]})

----------------------------------------------------------------------------
(* The same handlers, one database call at a time.  Between two awaits of a  *)
(* handler the calls of other requests may run.                             *)

\* A response sent by a handler that was suspended; pending[c] is done
ConcReply(c, op, caller, req, status, msg, data) ==
    /\ resp' = VideoReply(op, caller, req, status, msg, data, <<>>)
    /\ pending' = [pending EXCEPT ![c] = NoPending]

\* getVideoById up to the await of Video.aggregate
getVideoByIdAggregate(c, vid) ==
    LET video == findById(videos, vid) IN
    /\ pending[c] = NoPending
    /\ IF vid = 0
       THEN VideoRead("getVideoById", "", [vid |-> vid], 400,
                      "Invalid video ID", Null, <<>>)
       ELSE IF video = Null
       THEN VideoRead("getVideoById", "", [vid |-> vid], 404,
                      "Video not found", Null, <<>>)
       ELSE /\ pending' = [pending EXCEPT ![c] =
                             [pc |-> "getVideoById", vid |-> vid, video |-> video]]
            /\ UNCHANGED <<videoVars, playlistVars, socialVars, resp, prev>>

\* getVideoById from Video.findByIdAndUpdate to the response
getVideoByIdIncrement(c) ==
    /\ pending[c].pc = "getVideoById"
    /\ pending[c].vid \in DOMAIN videos
          => videos[pending[c].vid].views < MaxViews
    /\ videos' = incViews(videos, pending[c].vid)
    /\ ConcReply(c, "getVideoById", "", [vid |-> pending[c].vid], 200,
                 "Video fetched successfully!", pending[c].video)
    /\ UNCHANGED <<vidNext, playlistVars, socialVars, prev>>

\* togglePublishStatus up to the await of Video.findById
togglePublishStatusFind(c, caller, vid) ==
    LET video == findById(videos, vid) IN
    /\ pending[c] = NoPending
    /\ IF vid = 0
       THEN VideoRead("togglePublishStatus", caller, [vid |-> vid], 400,
                      "Invalid video ID", Null, <<>>)
       ELSE IF video = Null
       THEN VideoRead("togglePublishStatus", caller, [vid |-> vid], 404,
                      "Video not found", Null, <<>>)
       ELSE IF ownerMismatch(video, caller)
       THEN VideoRead("togglePublishStatus", caller, [vid |-> vid], 403,
                      "You are not authorized to change this video's publish status",
                      Null, <<>>)
       ELSE /\ pending' = [pending EXCEPT ![c] =
                             [pc |-> "togglePublishStatus", caller |-> caller,
                              vid |-> vid, video |-> video]]
            /\ UNCHANGED <<videoVars, playlistVars, socialVars, resp, prev>>

\* togglePublishStatus from video.save() to the response; saving a document
\* that was deleted meanwhile throws
togglePublishStatusSave(c) ==
    /\ pending[c].pc = "togglePublishStatus"
    /\ IF pending[c].vid \in DOMAIN videos
       THEN /\ videos' = savePublishFlag(videos, pending[c].vid, pending[c].video)
            /\ ConcReply(c, "togglePublishStatus", pending[c].caller,
                         [vid |-> pending[c].vid], 200,
                         IF ~pending[c].video.isPublished
                         THEN "Video published successfully!"
                         ELSE "Video unpublished successfully!",
                         [_id |-> pending[c].vid,
                          isPublished |-> ~pending[c].video.isPublished])
       ELSE /\ UNCHANGED videos
            /\ ConcReply(c, "togglePublishStatus", pending[c].caller,
                         [vid |-> pending[c].vid], 500,
                         "document not found", Null)
    /\ UNCHANGED <<vidNext, playlistVars, socialVars, prev>>

\* createPlaylist up to the await of Playlist.findOne
createPlaylistFindOne(c, caller, body) ==
    /\ pending[c] = NoPending
    /\ IF optTrimIsEmpty(body.name) \/ optTrimIsEmpty(body.description)
       THEN PlaylistError("createPlaylist", caller, 0, NoVideoParam, body,
                          400, "All fields are required")
       ELSE IF existingPlaylist(body.name, caller)
       THEN PlaylistError("createPlaylist", caller, 0, NoVideoParam, body,
                          400, "Playlist with the same name already exists")
       ELSE /\ pending' = [pending EXCEPT ![c] =
                             [pc |-> "createPlaylist", caller |-> caller,
                              body |-> body]]
            /\ UNCHANGED <<playlistVars, videoVars, socialVars, resp, prev>>

\* createPlaylist from Playlist.create to the response
createPlaylistCreate(c) ==
    LET caller == pending[c].caller
        body == pending[c].body
    IN
    /\ pending[c].pc = "createPlaylist"
    /\ pending' = [pending EXCEPT ![c] = NoPending]
    /\ IF ~playlistSchemaValid(body.name, body.description)
       THEN /\ resp' = PlaylistReply("createPlaylist", caller, 0, NoVideoParam,
                                     body, 500, "Playlist validation failed")
            /\ UNCHANGED playlistVars
       ELSE /\ plNext \in PlaylistIds
            /\ playlists' = [p \in DOMAIN playlists \cup {plNext} |->
                               IF p = plNext
                               THEN [name |-> body.name,
                                     description |-> body.description,
                                     owner |-> caller, videos |-> <<>>]
                               ELSE playlists[p]]
            /\ plNext' = plNext + 1
            /\ resp' = PlaylistReply("createPlaylist", caller, plNext,
                                     NoVideoParam, body, 201,
                                     "Playlist created successfully")
    /\ UNCHANGED <<videoVars, socialVars, prev>>

----------------------------------------------------------------------------
(* Specifications *)

\* The request answered before the last one was no successful toggle
NoToggle == [vid |-> 0, was |-> FALSE]

NoReply ==
    [op |-> "none", caller |-> "u1", pid |-> 0, vid |-> NoVideoParam,
     body |-> NoBody, status |-> 0, msg |-> "", before |-> <<>>]

Init ==
    /\ playlists = <<>>
    /\ plNext = 1
    /\ videos = <<>>
    /\ vidNext = 1
    /\ likes = {}
    /\ subscriptions = {}
    /\ pending = [c \in Clients |-> NoPending]
    /\ resp = NoReply
    /\ prev = NoToggle

\* The response has been sent; the server waits for the next request
nextRequest ==
    /\ resp # NoReply
    /\ resp' = NoReply
    /\ UNCHANGED <<playlistVars, videoVars, socialVars, pending, prev>>

\* As nextRequest, the history kept: a togglePublishStatus answered 200 is
\* remembered with the flag its video had before it, any other request is not
nextRequestAfter ==
    /\ resp # NoReply
    /\ prev' = IF resp.op = "togglePublishStatus" /\ resp.status = 200
               THEN [vid |-> resp.req.vid,
                     was |-> resp.before[resp.req.vid].isPublished]
               ELSE NoToggle
    /\ resp' = NoReply
    /\ UNCHANGED <<playlistVars, videoVars, socialVars, pending>>

\* One request at a time: a request is taken only when none is being answered
PlaylistNext ==
    \/ /\ resp = NoReply
       /\ \E caller \in Users, body \in PlaylistBodies : createPlaylist(caller, body)
    \/ /\ resp = NoReply
       /\ \E caller \in Users, pid \in PlaylistParams, body \in PlaylistBodies :
             updatePlaylist(caller, pid, body)
    \/ /\ resp = NoReply
       /\ \E caller \in Users, pid \in PlaylistParams : deletePlaylist(caller, pid)
    \/ /\ resp = NoReply
       /\ \E caller \in Users, pid \in PlaylistParams, vid \in RawVideoIds :
             addVideoToPlaylist(caller, pid, vid)
    \/ /\ resp = NoReply
       /\ \E caller \in Users, pid \in PlaylistParams, vid \in RawVideoIds :
             removeVideoFromPlaylist(caller, pid, vid)
    \/ nextRequest

SpecPlaylist == Init /\ [][PlaylistNext]_vars

VideoNext ==
    \/ /\ resp = NoReply
       /\ \E caller \in Users, r \in PublishRequests : publishAVideo(caller, r)
    \/ /\ resp = NoReply
       /\ \E vid \in VideoParams : getVideoById(vid)
    \/ /\ resp = NoReply
       /\ \E caller \in Users, r \in UpdateRequests : updateVideo(caller, r)
    \/ /\ resp = NoReply
       /\ \E caller \in Users, vid \in VideoParams : deleteVideo(caller, vid)
    \/ /\ resp = NoReply
       /\ \E caller \in Users, vid \in VideoParams :
             togglePublishStatus(caller, vid)
    \/ nextRequest

SpecVideo == Init /\ [][VideoNext]_vars

\* Requests of the partial-update scenario: one playlist and one video, created
\* by well-formed requests, then updated by any request
SimplePublishRequests ==
    [body : {[title |-> <<"a">>, description |-> <<"b">>]},
     videoFile : {"f1"}, thumbnail : {"t1"},
     videoUpload : {"ok"}, thumbnailUpload : {"ok"}]

LowerVideoIds == [oid : VideoOids, upper : {FALSE}]

UpdateNext ==
    \/ /\ resp = NoReply /\ plNext = 1
       /\ \E caller \in Users, body \in PlaylistBodies : createPlaylist(caller, body)
    \/ /\ resp = NoReply
       /\ \E caller \in Users, pid \in PlaylistParams, body \in PlaylistBodies :
             updatePlaylist(caller, pid, body)
    \/ /\ resp = NoReply
       /\ \E caller \in Users, pid \in PlaylistIds, vid \in LowerVideoIds :
             addVideoToPlaylist(caller, pid, vid)
    \/ /\ resp = NoReply /\ vidNext = 1
       /\ \E caller \in Users, r \in SimplePublishRequests : publishAVideo(caller, r)
    \/ /\ resp = NoReply
       /\ \E vid \in VideoIds : getVideoById(vid)
    \/ /\ resp = NoReply
       /\ \E caller \in Users, vid \in VideoIds : togglePublishStatus(caller, vid)
    \/ /\ resp = NoReply
       /\ \E caller \in Users, r \in UpdateRequests : updateVideo(caller, r)
    \/ nextRequest

SpecUpdate == Init /\ [][UpdateNext]_vars

\* Well-formed uploads whose texts the search of the feed tells apart
FeedPublishRequests ==
    [body : {[title |-> <<"a">>, description |-> <<"b">>],
             [title |-> <<"B">>, description |-> <<"c">>]},
     videoFile : {"f1"}, thumbnail : {"t1"},
     videoUpload : {"ok"}, thumbnailUpload : {"ok"}]

FeedNext ==
    \/ /\ resp = NoReply
       /\ \E caller \in Users, r \in FeedPublishRequests : publishAVideo(caller, r)
    \/ /\ resp = NoReply
       /\ \E caller \in Users, vid \in VideoIds : togglePublishStatus(caller, vid)
    \/ /\ resp = NoReply
       /\ \E vid \in VideoIds : getVideoById(vid)
    \/ /\ resp = NoReply
       /\ \E caller \in Users, vid \in VideoIds : deleteVideo(caller, vid)
    \/ /\ resp = NoReply
       /\ \E q \in FeedQueries : getAllVideos(q)
    \/ /\ resp = NoReply
       /\ \E caller \in Users, q \in ChannelQueries : getChannelVideos(caller, q)
    \/ nextRequest

SpecFeed == Init /\ [][FeedNext]_vars

ConcUpdateRequests ==
    [vid : VideoIds, body : {[title |-> <<"B">>, description |-> Undefined]},
     file : {NoFile}, thumbnailUpload : {"ok"}]

\* Requests that overlap: a handler runs up to its next await, then any other
\* handler may run
ConcNext ==
    \/ /\ resp = NoReply
       /\ \E caller \in Users, r \in SimplePublishRequests : publishAVideo(caller, r)
    \/ /\ resp = NoReply
       /\ \E caller \in Users, vid \in VideoIds : deleteVideo(caller, vid)
    \/ /\ resp = NoReply
       /\ \E caller \in Users, r \in ConcUpdateRequests : updateVideo(caller, r)
    \/ /\ resp = NoReply
       /\ \E c \in Clients, vid \in VideoParams : getVideoByIdAggregate(c, vid)
    \/ /\ resp = NoReply
       /\ \E c \in Clients : getVideoByIdIncrement(c)
    \/ /\ resp = NoReply
       /\ \E c \in Clients, caller \in Users, vid \in VideoParams :
             togglePublishStatusFind(c, caller, vid)
    \/ /\ resp = NoReply
       /\ \E c \in Clients : togglePublishStatusSave(c)
    \/ nextRequest

SpecConc == Init /\ [][ConcNext]_vars

\* Requests of the video controller that reach each of its error responses
ErrorPublishRequests ==
    {r \in PublishRequests :
        r.body \in {[title |-> <<"a">>, description |-> <<"b">>],
                    [title |-> <<"a">>, description |-> Undefined]}}

ErrorUpdateRequests ==
    {r \in UpdateRequests :
        r.body \in {[title |-> <<"a">>, description |-> Undefined],
                    [title |-> Undefined, description |-> Undefined]}}

\* Every handler that writes, with every request that it refuses; one toggle
\* at a time may have other requests between its read and its save.  A run
\* exercises one controller: the handlers of one never read or write the
\* collection of the other
ErrorsNext ==
    \/ /\ resp = NoReply /\ vidNext = 1
       /\ \E caller \in Users, body \in PlaylistBodies : createPlaylist(caller, body)
    \/ /\ resp = NoReply /\ vidNext = 1
       /\ \E caller \in Users, pid \in PlaylistParams, body \in PlaylistBodies :
             updatePlaylist(caller, pid, body)
    \/ /\ resp = NoReply /\ vidNext = 1
       /\ \E caller \in Users, pid \in PlaylistParams : deletePlaylist(caller, pid)
    \/ /\ resp = NoReply /\ vidNext = 1
       /\ \E caller \in Users, pid \in PlaylistParams, vid \in RawVideoIds :
             addVideoToPlaylist(caller, pid, vid)
    \/ /\ resp = NoReply /\ vidNext = 1
       /\ \E caller \in Users, pid \in PlaylistParams, vid \in RawVideoIds :
             removeVideoFromPlaylist(caller, pid, vid)
    \/ /\ resp = NoReply /\ plNext = 1
       /\ \E caller \in Users, r \in ErrorPublishRequests : publishAVideo(caller, r)
    \/ /\ resp = NoReply /\ plNext = 1
       /\ \E vid \in VideoParams : getVideoById(vid)
    \/ /\ resp = NoReply /\ plNext = 1
       /\ \E caller \in Users, r \in ErrorUpdateRequests : updateVideo(caller, r)
    \/ /\ resp = NoReply /\ plNext = 1
       /\ \E caller \in Users, vid \in VideoParams : deleteVideo(caller, vid)
    \/ /\ resp = NoReply /\ plNext = 1
       /\ \E caller \in Users, vid \in VideoParams :
             togglePublishStatusFind("c1", caller, vid)
    \/ /\ resp = NoReply
       /\ togglePublishStatusSave("c1")
    \/ nextRequest

SpecErrors == Init /\ [][ErrorsNext]_vars

\* createPlaylist requests that overlap, with the other playlist requests
RaceNext ==
    \/ /\ resp = NoReply
       /\ \E c \in Clients, caller \in Users, body \in PlaylistBodies :
             createPlaylistFindOne(c, caller, body)
    \/ /\ resp = NoReply
       /\ \E c \in Clients : createPlaylistCreate(c)
    \/ /\ resp = NoReply
       /\ \E caller \in Users, pid \in PlaylistParams, body \in PlaylistBodies :
             updatePlaylist(caller, pid, body)
    \/ /\ resp = NoReply
       /\ \E caller \in Users, pid \in PlaylistParams : deletePlaylist(caller, pid)
    \/ nextRequest

SpecRace == Init /\ [][RaceNext]_vars

\* The dashboard and the requests that write what it reads
StatsNext ==
    \/ /\ resp = NoReply
       /\ \E caller \in Users, r \in SimplePublishRequests : publishAVideo(caller, r)
    \/ /\ resp = NoReply
       /\ \E vid \in VideoIds : getVideoById(vid)
    \/ /\ resp = NoReply
       /\ \E caller \in Users, vid \in VideoIds : deleteVideo(caller, vid)
    \/ /\ resp = NoReply
       /\ \E caller \in Users, vid \in VideoIds : toggleVideoLike(caller, vid)
    \/ /\ resp = NoReply
       /\ \E caller \in Users, cid \in CommentIds : toggleCommentLike(caller, cid)
    \/ /\ resp = NoReply
       /\ \E caller \in Users, channel \in Users : subscribe(caller, channel)
    \/ /\ resp = NoReply
       /\ \E caller \in Users, channel \in Users : unsubscribe(caller, channel)
    \/ /\ resp = NoReply
       /\ \E caller \in Users : getChannelStats(caller)
    \/ nextRequest

SpecStats == Init /\ [][StatsNext]_vars

\* Requests handled one at a time, the history of publish-flag toggles kept
ToggleNext ==
    \/ /\ resp = NoReply
       /\ \E caller \in Users, r \in SimplePublishRequests : publishAVideo(caller, r)
    \/ /\ resp = NoReply
       /\ \E caller \in Users, vid \in VideoParams :
             togglePublishStatus(caller, vid)
    \/ /\ resp = NoReply
       /\ \E vid \in VideoIds : getVideoById(vid)
    \/ /\ resp = NoReply
       /\ \E caller \in Users, r \in ConcUpdateRequests : updateVideo(caller, r)
    \/ /\ resp = NoReply
       /\ \E caller \in Users, vid \in VideoIds : deleteVideo(caller, vid)
    \/ nextRequestAfter

SpecToggle == Init /\ [][ToggleNext]_vars

----------------------------------------------------------------------------
(* Properties of the playlist controller *)

PlaylistMutations ==
    {"updatePlaylist", "deletePlaylist", "addVideoToPlaylist",
     "removeVideoFromPlaylist"}

\* The request answered last was a well-formed mutation of a playlist that
\* existed (an update carrying a body that passes the body validation)
MutatesExistingPlaylist ==
    /\ resp.op \in PlaylistMutations
    /\ resp.pid \in DOMAIN resp.before
    /\ resp.op \in {"addVideoToPlaylist", "removeVideoFromPlaylist"}
          => isValidObjectId(resp.vid)
    /\ resp.op = "updatePlaylist"
          => /\ ~(falsy(resp.body.name) /\ falsy(resp.body.description))
             /\ ~optTrimIsEmpty(resp.body.name)
             /\ ~optTrimIsEmpty(resp.body.description)

\* C1: a mutation of an existing playlist (update, delete, add video, remove
\* video) by a caller who is not its owner is answered 403 and leaves the
\* playlist collection as it was.
C1_NonOwnerMutationForbidden ==
    (MutatesExistingPlaylist /\ resp.before[resp.pid].owner # resp.caller)
        => (resp.status = 403 /\ playlists = resp.before)

\* C3: no two distinct playlists have the same owner and the same name, in
\* every state reached by create, update and delete requests handled one at
\* a time.
C3_NameUniquePerOwner ==
    \A p, q \in DOMAIN playlists :
        (p # q /\ playlists[p].owner = playlists[q].owner)
            => playlists[p].name # playlists[q].name

\* The video a route parameter denotes is in the list
DenotedVideoIn(list, raw) ==
    \E i \in 1..Len(list) : list[i] = castObjectId(raw)

NoDuplicateVideo(list) ==
    \A i, j \in 1..Len(list) : list[i] = list[j] => i = j

\* C4: adding a video that is already in the list is answered 400 "Video
\* already in playlist", removing one that is not in it 400 "Video not found
\* in playlist", the list unchanged in both cases, and no list ever holds
\* the same video twice.
C4_MembershipIsASet ==
    /\ (/\ resp.op = "addVideoToPlaylist"
        /\ resp.pid \in DOMAIN resp.before
        /\ isValidObjectId(resp.vid)
        /\ DenotedVideoIn(resp.before[resp.pid].videos, resp.vid))
          => /\ resp.status = 400
             /\ resp.msg = "Video already in playlist"
             /\ playlists = resp.before
    /\ (/\ resp.op = "removeVideoFromPlaylist"
        /\ resp.pid \in DOMAIN resp.before
        /\ isValidObjectId(resp.vid)
        /\ ~DenotedVideoIn(resp.before[resp.pid].videos, resp.vid))
          => /\ resp.status = 400
             /\ resp.msg = "Video not found in playlist"
             /\ playlists = resp.before
    /\ \A p \in DOMAIN playlists : NoDuplicateVideo(playlists[p].videos)

\* name and description are there and not empty once trimmed
NonEmptyBody(body) ==
    /\ body.name # Undefined /\ trim(body.name) # <<>>
    /\ body.description # Undefined /\ trim(body.description) # <<>>

OwnsPlaylistNamed(store, owner, name) ==
    \E p \in DOMAIN store : store[p].owner = owner /\ store[p].name = name

\* C5: createPlaylist by U with a non-empty name and description is answered
\* 400 "Playlist with the same name already exists", nothing created, when U
\* already owns a playlist of that name; otherwise 201, and exactly one
\* playlist is added, owned by U, whoever else owns a playlist of that name.
C5_CreatePlaylist ==
    (resp.op = "createPlaylist" /\ NonEmptyBody(resp.body))
        => IF OwnsPlaylistNamed(resp.before, resp.caller, resp.body.name)
           THEN /\ resp.status = 400
                /\ resp.msg = "Playlist with the same name already exists"
                /\ playlists = resp.before
           ELSE /\ resp.status = 201
                /\ \E new \in DOMAIN playlists \ DOMAIN resp.before :
                      /\ DOMAIN playlists = DOMAIN resp.before \cup {new}
                      /\ playlists[new].owner = resp.caller
                      /\ playlists[new].name = resp.body.name
                      /\ playlists[new].description = resp.body.description
                      /\ playlists[new].videos = <<>>
                /\ \A p \in DOMAIN resp.before : playlists[p] = resp.before[p]

\* A playlist is created for a user while another user owns one of that name
C5_Witness ==
    /\ resp.op = "createPlaylist"
    /\ resp.status = 201
    /\ \E p \in DOMAIN resp.before :
          /\ resp.before[p].name = resp.body.name
          /\ resp.before[p].owner # resp.caller

----------------------------------------------------------------------------
(* Properties of the video controller *)

VideoMutations == {"updateVideo", "deleteVideo", "togglePublishStatus"}

\* The request answered last was a mutation of a video that existed (an
\* update carrying at least one field that the handler accepts)
MutatesExistingVideo ==
    /\ resp.op \in VideoMutations
    /\ resp.req.vid \in DOMAIN resp.before
    /\ resp.op = "updateVideo"
          => ~(/\ falsy(resp.req.body.title)
               /\ falsy(resp.req.body.description)
               /\ resp.req.file = NoFile)

\* C2: updateVideo, deleteVideo and togglePublishStatus on an existing video
\* are answered 403, the video collection unchanged, when the caller is not
\* the owner, and are not answered 403 when the caller is the owner.
C2_VideoOwnerOnly ==
    MutatesExistingVideo
        => IF resp.before[resp.req.vid].owner # resp.caller
           THEN resp.status = 403 /\ videos = resp.before
           ELSE resp.status # 403

\* Each of the three mutations has been refused to a caller who is not the owner
C2_Witness ==
    /\ MutatesExistingVideo
    /\ resp.op = "togglePublishStatus"
    /\ resp.before[resp.req.vid].owner # resp.caller
    /\ resp.status = 403

\* A text field that is absent, or empty once trimmed
blank(x) == x = Undefined \/ trim(x) = <<>>

\* C9: createPlaylist with a name or description that is absent or
\* whitespace-only, and publishAVideo with such a title or description, are
\* answered 400 and create nothing.
C9_RequiredTextRejected ==
    /\ (resp.op = "createPlaylist"
        /\ (blank(resp.body.name) \/ blank(resp.body.description)))
          => (resp.status = 400 /\ playlists = resp.before)
    /\ (resp.op = "publishAVideo"
        /\ (blank(resp.req.body.title) \/ blank(resp.req.body.description)))
          => (resp.status = 400 /\ videos = resp.before)

\* The owner updates a playlist, or a video, that exists
OwnerUpdatesPlaylist ==
    /\ resp.op = "updatePlaylist"
    /\ resp.pid \in DOMAIN resp.before
    /\ resp.before[resp.pid].owner = resp.caller

OwnerUpdatesVideo ==
    /\ resp.op = "updateVideo"
    /\ resp.req.vid \in DOMAIN resp.before
    /\ resp.before[resp.req.vid].owner = resp.caller

\* The value of a text field after a partial update, a field counting as
\* supplied when present(field) holds
Updated(present(_), supplied, previous) ==
    IF present(supplied) THEN supplied ELSE previous

IsThere(x) == x # Undefined

IsNonEmpty(x) == ~falsy(x)

\* A request without any mutable field is refused
NoFieldRefused ==
    /\ (OwnerUpdatesPlaylist
        /\ resp.body.name = Undefined /\ resp.body.description = Undefined)
          => (resp.status = 400 /\ playlists = resp.before)
    /\ (OwnerUpdatesVideo
        /\ resp.req.body.title = Undefined
        /\ resp.req.body.description = Undefined /\ resp.req.file = NoFile)
          => (resp.status = 400 /\ videos = resp.before)

\* What a successful update leaves behind, for a given reading of "present"
PartialUpdate(present(_)) ==
    /\ (OwnerUpdatesPlaylist /\ resp.status = 200)
          => /\ DOMAIN playlists = DOMAIN resp.before
             /\ \A p \in DOMAIN playlists \ {resp.pid} :
                   playlists[p] = resp.before[p]
             /\ playlists[resp.pid] =
                  [resp.before[resp.pid] EXCEPT
                     !.name = Updated(present, resp.body.name, @),
                     !.description = Updated(present, resp.body.description, @)]
    /\ (OwnerUpdatesVideo /\ resp.status = 200)
          => /\ DOMAIN videos = DOMAIN resp.before
             /\ \A v \in DOMAIN videos \ {resp.req.vid} :
                   videos[v] = resp.before[v]
             /\ videos[resp.req.vid] =
                  [resp.before[resp.req.vid] EXCEPT
                     !.title = Updated(present, resp.req.body.title, @),
                     !.description =
                        Updated(present, resp.req.body.description, @),
                     !.thumbnail =
                        IF resp.req.file # NoFile
                        THEN <<"thumbnails", resp.req.file>> ELSE @]

\* C10 as stated: an update by the owner without any mutable field is answered
\* 400 and changes nothing; a successful update gives every field present in
\* the request the supplied value, keeps every absent field, and leaves owner,
\* video list, views and publish flag alone.
C10_PartialUpdateAsStated == NoFieldRefused /\ PartialUpdate(IsThere)

\* C10 amended: as above, a field counting as present when it is supplied with
\* a non-empty value; a field supplied as the empty string keeps its previous
\* value.
C10_PartialUpdate == NoFieldRefused /\ PartialUpdate(IsNonEmpty)

\* The owner's update succeeded with an empty title, which the video kept,
\* while the description took the supplied value
C10_Witness ==
    /\ OwnerUpdatesVideo
    /\ resp.status = 200
    /\ resp.req.body.title = <<>>
    /\ videos[resp.req.vid].title = resp.before[resp.req.vid].title
    /\ videos[resp.req.vid].description = resp.req.body.description
    /\ videos[resp.req.vid].description # resp.before[resp.req.vid].description
    /\ videos[resp.req.vid].views > 0

----------------------------------------------------------------------------
(* Properties of the listings *)

\* The filters a caller of GET /videos supplies: the search text and the owner
SuppliedFilters(doc, q) ==
    /\ q.query # <<>> =>
          regexTest(doc.title, q.query) \/ regexTest(doc.description, q.query)
    /\ q.userId # "" => doc.owner = q.userId

\* C6: whatever the query, every video getAllVideos returns is published in
\* the store at the time of the query, and totalVideos counts the published
\* videos that pass the supplied filters, and no other.
C6_FeedPublishedOnly ==
    (resp.op = "getAllVideos" /\ resp.status = 200)
        => /\ \A i \in DOMAIN resp.data.videos :
                 /\ resp.data.videos[i]._id \in DOMAIN videos
                 /\ resp.data.videos[i].doc = videos[resp.data.videos[i]._id]
                 /\ videos[resp.data.videos[i]._id].isPublished = TRUE
           /\ resp.data.pagination.totalVideos =
                 Cardinality({v \in DOMAIN videos :
                                /\ videos[v].isPublished = TRUE
                                /\ SuppliedFilters(videos[v], resp.req)})

\* A listing was answered with a video while another video that passes the
\* supplied filters is unpublished
C6_Witness ==
    /\ resp.op = "getAllVideos"
    /\ resp.status = 200
    /\ Len(resp.data.videos) > 0
    /\ \E v \in DOMAIN videos :
          /\ ~videos[v].isPublished
          /\ SuppliedFilters(videos[v], resp.req)

Max(a, b) == IF a > b THEN a ELSE b

\* n is the ceiling of total / limit
IsCeiling(n, total, limit) ==
    /\ n * limit >= total
    /\ (n - 1) * limit < total
    /\ total = 0 => n = 0

\* The documents a listing ranges over
ListedTotal ==
    IF resp.op = "getAllVideos"
    THEN Cardinality({v \in DOMAIN videos :
                        /\ videos[v].isPublished = TRUE
                        /\ SuppliedFilters(videos[v], resp.req)})
    ELSE Cardinality({v \in DOMAIN videos : videos[v].owner = resp.caller})

\* A listing request with page >= 1 and limit >= 1 (given or by default) and,
\* for getAllVideos, no malformed userId
PagedListing ==
    /\ resp.op \in {"getAllVideos", "getChannelVideos"}
    /\ intParam(resp.req.page, DefaultPage) >= 1
    /\ intParam(resp.req.limit, DefaultLimit) >= 1
    /\ resp.op = "getAllVideos" => resp.req.userId \in {""} \cup Users

\* C8: for page >= 1 and limit >= 1 a listing is answered 200 with
\* currentPage = page, limit = limit, totalPages = ceil(totalCount / limit)
\* (0 when nothing matches) and a list of
\* min(limit, max(0, totalCount - (page - 1) * limit)) videos.
C8_Pagination ==
    PagedListing
        => LET page == intParam(resp.req.page, DefaultPage)
               limit == intParam(resp.req.limit, DefaultLimit)
           IN /\ resp.status = 200
              /\ resp.data.pagination.totalVideos = ListedTotal
              /\ resp.data.pagination.currentPage = page
              /\ resp.data.pagination.limit = limit
              /\ IsCeiling(resp.data.pagination.totalPages, ListedTotal, limit)
              /\ Len(resp.data.videos) =
                    Min(limit, Max(0, ListedTotal - (page - 1) * limit))

\* The second page of one video out of two
C8_Witness ==
    /\ PagedListing
    /\ resp.req.page = [given |-> TRUE, val |-> 2]
    /\ resp.req.limit = [given |-> TRUE, val |-> 1]
    /\ ListedTotal = 2
    /\ Len(resp.data.videos) = 1
    /\ resp.data.pagination.totalPages = 2

----------------------------------------------------------------------------
(* Properties of the view counter, requests overlapping *)

\* No video that is still there has fewer views than before the response
ViewsNotDecreased ==
    \A v \in DOMAIN resp.before \cap DOMAIN videos :
        videos[v].views >= resp.before[v].views

\* One step never lowers the view counter of a video
ViewsStep ==
    \A v \in DOMAIN videos \cap DOMAIN videos' :
        videos'[v].views >= videos[v].views

IsVideoOp ==
    resp.op \in {"publishAVideo", "getVideoById", "updateVideo", "deleteVideo",
                 "togglePublishStatus", "getAllVideos", "getChannelVideos"}

\* A failed getVideoById changes no counter
FailedFetchChangesNothing ==
    (resp.op = "getVideoById" /\ resp.status \in {400, 404})
        => videos = resp.before

\* C7 as stated: no view counter ever decreases, every getVideoById answered
\* 200 has increased the counter of its video by exactly 1, and one answered
\* 400 or 404 has changed no counter.
C7_ViewsAsStated ==
    IsVideoOp =>
        /\ ViewsNotDecreased
        /\ FailedFetchChangesNothing
        /\ (resp.op = "getVideoById" /\ resp.status = 200)
              => /\ resp.req.vid \in DOMAIN resp.before
                 /\ resp.req.vid \in DOMAIN videos
                 /\ videos[resp.req.vid].views =
                       resp.before[resp.req.vid].views + 1

\* The response of the last request, as far as the view counters go
ViewsAfterResponse ==
    IsVideoOp =>
        /\ ViewsNotDecreased
        /\ FailedFetchChangesNothing
        /\ (resp.op = "getVideoById" /\ resp.status = 200)
              => IF resp.req.vid \in DOMAIN resp.before
                 THEN videos = [resp.before EXCEPT ![resp.req.vid].views = @ + 1]
                 ELSE videos = resp.before
        /\ resp.op # "getVideoById"
              => \A v \in DOMAIN resp.before \cap DOMAIN videos :
                    videos[v].views = resp.before[v].views

\* C7 amended: in every execution, requests overlapping, no view counter ever
\* decreases; a getVideoById answered 200 has increased the counter of its
\* video by exactly 1 and changed nothing else if the video still existed when
\* the increment was applied, and has changed nothing if the video was deleted
\* after the lookup; one answered 400 or 404 has changed nothing; and no other
\* request changes a view counter.
C7_Views == []ViewsAfterResponse /\ [][ViewsStep]_vars

\* A fetch is answered, its counter incremented, while another fetch of the
\* same video is between its lookup and its increment and a publish-flag
\* toggle is between its read and its save
C7_Witness ==
    /\ resp.op = "getVideoById"
    /\ resp.status = 200
    /\ resp.req.vid \in DOMAIN videos
    /\ videos[resp.req.vid].views = 2
    /\ \E c \in Clients :
          /\ pending[c].pc = "togglePublishStatus"
          /\ pending[c].vid = resp.req.vid
          /\ pending[c].video.views = 0

----------------------------------------------------------------------------
(* Properties of the references a playlist holds *)

\* Every identifier in a video list is the identifier of a video in the store
ListsReferToVideos ==
    \A p \in DOMAIN playlists :
        \A i \in 1..Len(playlists[p].videos) :
            playlists[p].videos[i] \in DOMAIN videos

\* C11: addVideoToPlaylist on an existing playlist with a well-formed videoId
\* that is the identifier of no video is answered 404, the playlists
\* unchanged, and so, no video ever being deleted, every identifier in a
\* playlist's video list is the identifier of an existing video.
C11_AddedVideoExists ==
    /\ (/\ resp.op = "addVideoToPlaylist"
        /\ resp.pid \in DOMAIN resp.before
        /\ isValidObjectId(resp.vid)
        /\ castObjectId(resp.vid) \notin DOMAIN videos)
          => (resp.status = 404 /\ playlists = resp.before)
    /\ ListsReferToVideos

----------------------------------------------------------------------------
(* Properties of the publish flag *)

\* The owner toggles the publish flag of a video that exists
OwnerToggles ==
    /\ resp.op = "togglePublishStatus"
    /\ resp.req.vid \in DOMAIN resp.before
    /\ resp.before[resp.req.vid].owner = resp.caller

\* The message says "published", and not "unpublished"
SaysPublished(msg) == msg = "Video published successfully!"

SaysUnpublished(msg) == msg = "Video unpublished successfully!"

\* C12: togglePublishStatus by the owner on an existing video is answered
\* 200, sets isPublished to the negation of its previous value and changes
\* nothing else, says "published" exactly when the new flag is true and
\* "unpublished" exactly when it is false, and, when the request answered
\* just before it was a successful toggle of the same video, gives the flag
\* the value it had before the two.
C12_Toggle ==
    OwnerToggles =>
        /\ resp.status = 200
        /\ videos = [resp.before EXCEPT
                        ![resp.req.vid].isPublished =
                            ~resp.before[resp.req.vid].isPublished]
        /\ SaysPublished(resp.msg) <=> videos[resp.req.vid].isPublished
        /\ SaysUnpublished(resp.msg) <=> ~videos[resp.req.vid].isPublished
        /\ resp.data.isPublished = videos[resp.req.vid].isPublished
        /\ prev.vid = resp.req.vid
              => videos[resp.req.vid].isPublished = prev.was

\* The second of two successive toggles of a viewed video has been answered,
\* and the video is published again
C12_Witness ==
    /\ OwnerToggles
    /\ resp.status = 200
    /\ prev = [vid |-> resp.req.vid, was |-> TRUE]
    /\ videos[resp.req.vid].isPublished
    /\ SaysPublished(resp.msg)
    /\ videos[resp.req.vid].views > 0

----------------------------------------------------------------------------
(* Properties of the channel statistics *)

\* Number of pairs (v, k) with v a video of S and k one of its views
ViewsOf(S) ==
    Cardinality({vk \in S \X (1..MaxViews) : vk[2] <= videos[vk[1]].views})

OwnedVideos(channel) == {v \in DOMAIN videos : videos[v].owner = channel}

\* C13: getChannelStats for caller C is answered 200 with totalSubscribers
\* the number of Subscription rows of channel C, totalVideos the number of
\* videos owned by C whether published or not, totalViews the sum of their
\* view counters and totalLikes the number of Like rows whose video is an
\* existing video owned by C; all four are 0 when C has none of these.
C13_ChannelStats ==
    resp.op = "getChannelStats" =>
        /\ resp.status = 200
        /\ resp.data.totalSubscribers =
              Cardinality({sub \in subscriptions : sub.channel = resp.caller})
        /\ resp.data.totalVideos = Cardinality(OwnedVideos(resp.caller))
        /\ resp.data.totalViews = ViewsOf(OwnedVideos(resp.caller))
        /\ resp.data.totalLikes =
              Cardinality({l \in likes : \E v \in OwnedVideos(resp.caller) :
                                            l.video = v})
        /\ (/\ OwnedVideos(resp.caller) = {}
            /\ \A sub \in subscriptions : sub.channel # resp.caller)
              => resp.data = [totalSubscribers |-> 0, totalVideos |-> 0,
                              totalViews |-> 0, totalLikes |-> 0]

\* Statistics of a channel with one video, viewed twice and liked by two
\* users, and one subscriber, while the store also holds a like of a deleted
\* video and a like of a comment
C13_Witness ==
    /\ resp.op = "getChannelStats"
    /\ resp.data.totalVideos = 1
    /\ resp.data.totalViews = 2
    /\ resp.data.totalLikes = 2
    /\ resp.data.totalSubscribers = 1
    /\ \E l \in likes : l.video # 0 /\ l.video \notin DOMAIN videos
    /\ \E l \in likes : l.video = 0

----------------------------------------------------------------------------
(* Properties of the uploads to the media service *)

\* publishAVideo got as far as its uploads
PublishUploads ==
    /\ resp.op = "publishAVideo"
    /\ ~falsy(resp.req.body.title) /\ ~falsy(resp.req.body.description)
    /\ resp.req.videoFile # NoFile /\ resp.req.thumbnail # NoFile

\* updateVideo got as far as the upload of a new thumbnail
UpdateUploads ==
    /\ resp.op = "updateVideo"
    /\ resp.req.vid \in DOMAIN resp.before
    /\ resp.before[resp.req.vid].owner = resp.caller
    /\ resp.req.file # NoFile

\* C14: a publishAVideo whose video-file upload fails, by an error or by no
\* result, is answered 500 with the video upload the only upload attempted,
\* once, and no video created; a publishAVideo or updateVideo whose
\* thumbnail upload fails is answered 500 with no upload attempted twice and
\* no video created or modified.
C14_FailedUploadFailsAtOnce ==
    /\ (PublishUploads /\ resp.req.videoUpload # "ok")
          => /\ resp.status = 500
             /\ resp.uploads = <<"videos">>
             /\ videos = resp.before
    /\ (PublishUploads /\ resp.req.videoUpload = "ok"
                       /\ resp.req.thumbnailUpload # "ok")
          => /\ resp.status = 500
             /\ resp.uploads = <<"videos", "thumbnails">>
             /\ videos = resp.before
    /\ (UpdateUploads /\ resp.req.thumbnailUpload # "ok")
          => /\ resp.status = 500
             /\ resp.uploads = <<"thumbnails">>
             /\ videos = resp.before

----------------------------------------------------------------------------
(* Properties of createPlaylist, requests overlapping *)

\* Client c has a createPlaylist between its lookup and its create
CreatePending(c) == pending[c].pc = "createPlaylist"

\* A step that is the uniqueness lookup of a createPlaylist whose fields are
\* there: it is answered 400 "already exists" exactly when the caller owns a
\* playlist of that name at the lookup, and goes on to the create otherwise
LookupDecides ==
    /\ \A c \in Clients :
          (~CreatePending(c) /\ CreatePending(c)')
              => ~OwnsPlaylistNamed(playlists, pending'[c].caller,
                                    pending'[c].body.name)
    /\ (/\ resp'.op = "createPlaylist"
        /\ pending' = pending
        /\ NonEmptyBody(resp'.body))
          => /\ resp'.status = 400
             /\ resp'.msg = "Playlist with the same name already exists"
             /\ OwnsPlaylistNamed(playlists, resp'.caller, resp'.body.name)
             /\ playlists' = playlists

\* A step that is the create of a createPlaylist whose fields are there: it
\* is answered 201 and adds the playlist whatever the store holds by then
CreateDoesNotLookAgain ==
    \A c \in Clients :
        (CreatePending(c) /\ ~CreatePending(c)' /\ NonEmptyBody(pending[c].body))
            => /\ resp'.status = 201
               /\ DOMAIN playlists' = DOMAIN playlists \cup {resp'.pid}
               /\ resp'.pid \notin DOMAIN playlists
               /\ playlists'[resp'.pid].owner = pending[c].caller
               /\ playlists'[resp'.pid].name = pending[c].body.name
               /\ \A p \in DOMAIN playlists : playlists'[p] = playlists[p]

\* C15: the uniqueness lookup and the create of createPlaylist are two steps.
\* A lookup rejects the request exactly when the caller owns a playlist of
\* that name at that moment, so of two requests run one after the other the
\* second is rejected; a create adds its playlist and answers 201 without
\* looking again, so two requests of one caller and one name whose lookups
\* both precede both creates are both answered 201.
C15_CheckThenAct == [][LookupDecides /\ CreateDoesNotLookAgain]_vars

\* Two createPlaylist requests of one caller and one name have both been
\* answered 201: the store holds two playlists of that owner and name
C15_Witness ==
    /\ resp.op = "createPlaylist"
    /\ resp.status = 201
    /\ \E p \in DOMAIN resp.before :
          /\ p # resp.pid
          /\ p \in DOMAIN playlists
          /\ playlists[p].owner = resp.caller
          /\ playlists[p].name = resp.body.name
          /\ playlists[resp.pid].owner = resp.caller
          /\ playlists[resp.pid].name = resp.body.name

----------------------------------------------------------------------------
(* Properties of the error responses *)

ErrorStatuses == {400, 403, 404, 500}

\* The step sends an error response
ErrorAnswered == resp' # resp /\ resp'.status \in ErrorStatuses

\* The step leaves a handler waiting at an await: its checks are made, the
\* request is not answered yet
HandlerSuspends ==
    \E c \in Clients : pending[c] = NoPending /\ pending'[c] # NoPending

StoreUnchanged ==
    /\ playlists' = playlists
    /\ videos' = videos
    /\ plNext' = plNext
    /\ vidNext' = vidNext

\* C16: a step of a playlist or video handler that sends an error response
\* (400, 403, 404, 500) writes nothing, and neither does a step that makes
\* the checks of a request and leaves it waiting: a request that ends with
\* an error has left the playlists and the videos, with all their fields,
\* as they were.
C16_ErrorsWriteNothing ==
    [][(ErrorAnswered \/ HandlerSuspends) => StoreUnchanged]_vars

\* The save of a toggle has been refused, the video deleted since its read,
\* while the other video is still there
C16_Witness ==
    /\ resp.op = "togglePublishStatus"
    /\ resp.status = 500
    /\ resp.req.vid \notin DOMAIN videos
    /\ videos # <<>>
    /\ videos = resp.before

====
